---- MODULE Spec2Model ----
(***************************************************************************)
(* A model of the arithmetic core of sonic-js: src/math/swap.ts (class     *)
(* Swap) and src/math/liquidity.ts (class Liquidity).                      *)
(*                                                                         *)
(* Every function of the two classes is pure.  The model is a caller that  *)
(* holds one snapshot of externally supplied inputs (reserves, total       *)
(* supply, decimals, fee, prices, the amounts of a deposit being entered)  *)
(* and calls the functions on it; the state                                *)
(* records the latest call, the one before it, and what the LP holders of  *)
(* a pool have redeemed so far against the snapshot.                       *)
(*                                                                         *)
(* Decimal values are bignumber.js values: a finite decimal n / 10^e, NaN, *)
(* or a signed infinity.  Sums, differences and products are exact;        *)
(* quotients and square roots are rounded to DecimalPlaces decimal places  *)
(* with ROUND_HALF_UP (the library's defaults are DECIMAL_PLACES = 20 and  *)
(* ROUNDING_MODE = ROUND_HALF_UP; the model keeps the rounding mode and    *)
(* uses a smaller number of places so that values stay in TLC's integers). *)
(***************************************************************************)
EXTENDS Integers, FiniteSets, Sequences, TLC

(***************************************************************************)
(* Bounds of the model.                                                    *)
(***************************************************************************)
\* decimal places kept by dividedBy and sqrt
DecimalPlaces == 3
\* token decimals range over 0..MaxDecimals
MaxDecimals == 1
\* raw swap input amounts range over 0..MaxAmount
MaxAmount == 4
\* reserves range over 0..MaxReserve
MaxReserve == 3
\* total LP supply ranges over 0..MaxSupply
MaxSupply == 3
\* raw deposit amounts range over 0..MaxDeposit
MaxDeposit == 3
\* an output reserve large enough for a fee of 0.3% to show in a quote
BigReserve == 1000

(***************************************************************************)
(* Decimal values (bignumber.js)                                           *)
(***************************************************************************)
RECURSIVE Pow10(_)
Pow10(k) == IF k <= 0 THEN 1 ELSE 10 * Pow10(k - 1)

Abs(i) == IF i < 0 THEN -i ELSE i
Sgn(i) == IF i < 0 THEN -1 ELSE IF i > 0 THEN 1 ELSE 0
MaxOf(i, j) == IF i >= j THEN i ELSE j

\* the coefficient is kept without trailing zeros
RECURSIVE Norm(_, _)
Norm(n, e) ==
  IF n = 0 THEN [k |-> "fin", n |-> 0, e |-> 0]
  ELSE IF e > 0 /\ n % 10 = 0 THEN Norm(n \div 10, e - 1)
  ELSE [k |-> "fin", n |-> n, e |-> e]

Dec(n, e) == Norm(n, e)
Int2Dec(i) == Norm(i, 0)
NaN == [k |-> "nan", n |-> 0, e |-> 0]
Infinity(s) == [k |-> "inf", n |-> s, e |-> 0]

isNaN(x) == x.k = "nan"
isZero(x) == x.k = "fin" /\ x.n = 0
\* the sign of a value that is not NaN
SignOf(x) == Sgn(x.n)

\* N / D (N >= 0, D > 0) rounded to the nearest integer, ties away from zero
RoundHalfUp(N, D) == (N \div D) + (IF 2 * (N % D) >= D THEN 1 ELSE 0)

negated(x) ==
  IF x.k = "nan" THEN NaN
  ELSE IF x.k = "inf" THEN Infinity(-x.n)
  ELSE Norm(-x.n, x.e)

plus(x, y) ==
  IF x.k = "nan" \/ y.k = "nan" THEN NaN
  ELSE IF x.k = "inf" /\ y.k = "inf" THEN (IF x.n = y.n THEN x ELSE NaN)
  ELSE IF x.k = "inf" THEN x
  ELSE IF y.k = "inf" THEN y
  ELSE LET e == MaxOf(x.e, y.e)
       IN  Norm(x.n * Pow10(e - x.e) + y.n * Pow10(e - y.e), e)

minus(x, y) == plus(x, negated(y))

multipliedBy(x, y) ==
  IF x.k = "nan" \/ y.k = "nan" THEN NaN
  ELSE IF x.k = "inf" \/ y.k = "inf"
    THEN (IF isZero(x) \/ isZero(y) THEN NaN ELSE Infinity(SignOf(x) * SignOf(y)))
  ELSE Norm(x.n * y.n, x.e + y.e)

\* long division: <<floor(N * 10^places / D), the remainder>> from the quotient q
\* and remainder r found so far
RECURSIVE DivDigits(_, _, _, _)
DivDigits(q, r, D, places) ==
  IF places <= 0 THEN <<q, r>>
  ELSE DivDigits(q * 10 + ((r * 10) \div D), (r * 10) % D, D, places - 1)

\* N * 10^places / D (N >= 0, D > 0) rounded to the nearest integer, ties up
RoundedQuotient(N, D, places) ==
  LET qr == DivDigits(N \div D, N % D, D, places)
  IN  qr[1] + (IF 2 * qr[2] >= D THEN 1 ELSE 0)

\* the quotient rounded to DecimalPlaces places, ROUND_HALF_UP
dividedBy(x, y) ==
  IF x.k = "nan" \/ y.k = "nan" THEN NaN
  ELSE IF x.k = "inf" THEN
    (IF y.k = "inf" THEN NaN
     ELSE Infinity(IF SignOf(y) < 0 THEN -x.n ELSE x.n))
  ELSE IF y.k = "inf" THEN Int2Dec(0)
  ELSE IF y.n = 0 THEN (IF x.n = 0 THEN NaN ELSE Infinity(Sgn(x.n)))
  ELSE LET N == Abs(x.n) * Pow10(y.e - x.e)
           D == Abs(y.n) * Pow10(x.e - y.e)
       IN  Norm(Sgn(x.n) * Sgn(y.n) * RoundedQuotient(N, D, DecimalPlaces),
                DecimalPlaces)

\* m - 1/2 <= sqrt(X / D), that is (2m - 1)^2 * D <= 4 * X, for m >= 1
RootAtLeast(X, D, m) ==
  LET Y == X - ((D + 3) \div 4)
  IN  Y >= 0 /\ m - 1 <= Y \div (m * D)

\* the largest m in lo..hi with m = 0 or m - 1/2 <= sqrt(X / D)
RECURSIVE RootSearch(_, _, _, _)
RootSearch(X, D, lo, hi) ==
  IF lo >= hi THEN lo
  ELSE LET mid == (lo + hi + 1) \div 2
       IN  IF RootAtLeast(X, D, mid)
           THEN RootSearch(X, D, mid, hi)
           ELSE RootSearch(X, D, lo, mid - 1)

\* a power of two h with h - 1/2 > sqrt(X / D)
RECURSIVE RootBound(_, _, _)
RootBound(X, D, h) ==
  IF ~RootAtLeast(X, D, h) THEN h ELSE RootBound(X, D, 2 * h)

\* the square root rounded to DecimalPlaces places, ROUND_HALF_UP
sqrt(x) ==
  IF x.k = "nan" THEN NaN
  ELSE IF x.k = "inf" THEN (IF x.n > 0 THEN x ELSE NaN)
  ELSE IF x.n < 0 THEN NaN
  ELSE LET s == 2 * DecimalPlaces - x.e
           X == IF s >= 0 THEN x.n * Pow10(s) ELSE x.n
           D == IF s >= 0 THEN 1 ELSE Pow10(-s)
       IN  Norm(RootSearch(X, D, 0, RootBound(X, D, 1)), DecimalPlaces)

\* x < y for finite values, compared exactly
FinLess(x, y) ==
  LET e == MaxOf(x.e, y.e)
  IN  x.n * Pow10(e - x.e) < y.n * Pow10(e - y.e)

isLessThan(x, y) ==
  IF x.k = "nan" \/ y.k = "nan" THEN FALSE
  ELSE IF x.k = "inf" THEN (x.n < 0 /\ ~(y.k = "inf" /\ y.n < 0))
  ELSE IF y.k = "inf" THEN y.n > 0
  ELSE FinLess(x, y)

isGreaterThanOrEqualTo(x, y) ==
  x.k # "nan" /\ y.k # "nan" /\ ~isLessThan(x, y)

BigMin(x, y) ==
  IF x.k = "nan" \/ y.k = "nan" THEN NaN
  ELSE IF isLessThan(y, x) THEN y ELSE x

\* dp(0): rounded to an integer with ROUND_HALF_UP; NaN and infinities are kept
dp0(x) ==
  IF x.k # "fin" THEN x
  ELSE Norm(Sgn(x.n) * RoundHalfUp(Abs(x.n), Pow10(x.e)), 0)

\* dp(0, ROUND_FLOOR)
dpFloor(x) ==
  IF x.k # "fin" THEN x
  ELSE LET p == Pow10(x.e)
           q == Abs(x.n) \div p
       IN  IF x.n >= 0 THEN Norm(q, 0)
           ELSE Norm(-(q + (IF Abs(x.n) % p = 0 THEN 0 ELSE 1)), 0)

(***************************************************************************)
(* Utilities imported from '..' and Price imported from '.'                *)
(***************************************************************************)
\* a parameter the caller left out
Undefined == [k |-> "undefined", n |-> 0, e |-> 0]

\* JavaScript truthiness of a numeric parameter: undefined, 0 and NaN are falsy
Falsy(v) == v = Undefined \/ isZero(v) \/ isNaN(v)

toBigNumber(v) == IF v = Undefined THEN NaN ELSE v

exponential(n) == Int2Dec(Pow10(n))

removeDecimals(amount, decimals) ==
  dividedBy(toBigNumber(amount), exponential(decimals))

applyDecimals(amount, decimals) ==
  dp0(multipliedBy(toBigNumber(amount), exponential(decimals)))

\* Price.getByAmount
getByAmount(amount, price) == multipliedBy(toBigNumber(amount), toBigNumber(price))

(***************************************************************************)
(* class Swap                                                              *)
(***************************************************************************)
DEFAULT_FEE == Dec(3, 3)

\* params.fee || this.DEFAULT_FEE
FeeOrDefault(fee) == IF Falsy(fee) THEN DEFAULT_FEE ELSE fee

\* getAmountOut returning the output reserve left after the trade,
\* reserveIn * reserveOut / (reserveIn + amountInWithFee), instead of the output
getAmountOut_remaining(params) ==
  LET amountIn == removeDecimals(params.amountIn, params.decimalsIn)
      reserveIn == toBigNumber(params.reserveIn)
      reserveOut == toBigNumber(params.reserveOut)
      fee == toBigNumber(FeeOrDefault(params.fee))
  IN  IF isZero(amountIn) THEN toBigNumber(Int2Dec(0))
      ELSE LET amountInWithFee == multipliedBy(amountIn, minus(toBigNumber(Int2Dec(1)), fee))
               numerator == multipliedBy(reserveIn, reserveOut)
               denominator == plus(reserveIn, amountInWithFee)
           IN  applyDecimals(dividedBy(numerator, denominator), params.decimalsOut)

getAmountOut(params) ==
  LET amountIn == removeDecimals(params.amountIn, params.decimalsIn)
      reserveIn == toBigNumber(params.reserveIn)
      reserveOut == toBigNumber(params.reserveOut)
      fee == toBigNumber(FeeOrDefault(params.fee))
  IN  IF isZero(amountIn) THEN toBigNumber(Int2Dec(0))
      ELSE LET amountInWithFee == multipliedBy(amountIn, minus(toBigNumber(Int2Dec(1)), fee))
               numerator == multipliedBy(amountInWithFee, reserveOut)
               denominator == plus(reserveIn, amountInWithFee)
           IN  applyDecimals(dividedBy(numerator, denominator), params.decimalsOut)

\* the guard without the NaN check of priceOut
ImpactGuard_noNaN(amountIn, amountOut, priceIn, priceOut) ==
  \/ isZero(amountIn) \/ isNaN(amountIn)
  \/ isZero(amountOut) \/ isNaN(amountOut)
  \/ isZero(priceIn) \/ isNaN(priceIn)
  \/ isZero(priceOut)

\* the guard of getPriceImpact
ImpactGuard(amountIn, amountOut, priceIn, priceOut) ==
  \/ isZero(amountIn) \/ isNaN(amountIn)
  \/ isZero(amountOut) \/ isNaN(amountOut)
  \/ isZero(priceIn) \/ isNaN(priceIn)
  \/ isZero(priceOut) \/ isNaN(priceOut)

\* getPriceImpact without the final negated()
getPriceImpact_notNegated(params) ==
  LET amountIn == toBigNumber(params.amountIn)
      amountOut == toBigNumber(params.amountOut)
      priceIn == toBigNumber(params.priceIn)
      priceOut == toBigNumber(params.priceOut)
  IN  IF ImpactGuard(amountIn, amountOut, priceIn, priceOut)
      THEN toBigNumber(Int2Dec(0))
      ELSE LET valueOut == getByAmount(amountOut, priceOut)
               valueIn == getByAmount(amountIn, priceIn)
           IN  multipliedBy(minus(Int2Dec(1), dividedBy(valueOut, valueIn)), Int2Dec(100))

getPriceImpact(params) ==
  LET amountIn == toBigNumber(params.amountIn)
      amountOut == toBigNumber(params.amountOut)
      priceIn == toBigNumber(params.priceIn)
      priceOut == toBigNumber(params.priceOut)
  IN  IF ImpactGuard(amountIn, amountOut, priceIn, priceOut)
      THEN toBigNumber(Int2Dec(0))
      ELSE LET valueOut == getByAmount(amountOut, priceOut)
               valueIn == getByAmount(amountIn, priceIn)
           IN  negated(multipliedBy(minus(Int2Dec(1), dividedBy(valueOut, valueIn)),
                                    Int2Dec(100)))

(***************************************************************************)
(* class Liquidity                                                         *)
(***************************************************************************)
MINIMUM_LIQUIDITY == exponential(3)

getPairDecimals(token0Decimals, token1Decimals) ==
  dpFloor(dividedBy(plus(toBigNumber(Int2Dec(token0Decimals)), Int2Dec(token1Decimals)),
                    Int2Dec(2)))

\* the capping step with the comparison of amount1Desired reversed
AddAmounts_reversed(params) ==
  LET amount0Desired == removeDecimals(params.token0Amount, params.token0Decimals)
      amount1Desired == removeDecimals(params.token1Amount, params.token1Decimals)
      reserve0 == toBigNumber(params.reserve0)
      reserve1 == toBigNumber(params.reserve1)
  IN  IF isZero(reserve0) /\ isZero(reserve1)
      THEN [amount0 |-> amount0Desired, amount1 |-> amount1Desired]
      ELSE LET amount1Optimal == dividedBy(multipliedBy(amount0Desired, reserve1), reserve0)
           IN  IF isLessThan(amount1Desired, amount1Optimal)
               THEN [amount0 |-> amount0Desired, amount1 |-> amount1Optimal]
               ELSE LET amount0Optimal ==
                          dividedBy(multipliedBy(amount1Desired, reserve0), reserve1)
                    IN  [amount0 |-> amount0Optimal, amount1 |-> amount1Desired]

\* getAddPosition, the amounts accepted for the deposit (amount0, amount1)
AddAmounts(params) ==
  LET amount0Desired == removeDecimals(params.token0Amount, params.token0Decimals)
      amount1Desired == removeDecimals(params.token1Amount, params.token1Decimals)
      reserve0 == toBigNumber(params.reserve0)
      reserve1 == toBigNumber(params.reserve1)
  IN  IF isZero(reserve0) /\ isZero(reserve1)
      THEN [amount0 |-> amount0Desired, amount1 |-> amount1Desired]
      ELSE LET amount1Optimal == dividedBy(multipliedBy(amount0Desired, reserve1), reserve0)
           IN  IF isGreaterThanOrEqualTo(amount1Desired, amount1Optimal)
               THEN [amount0 |-> amount0Desired, amount1 |-> amount1Optimal]
               ELSE LET amount0Optimal ==
                          dividedBy(multipliedBy(amount1Desired, reserve0), reserve1)
                    IN  [amount0 |-> amount0Optimal, amount1 |-> amount1Desired]

\* the mint with both proportional amounts taken against reserve0
MintedLp_reserve0(params, amount0, amount1) ==
  LET reserve0 == toBigNumber(params.reserve0)
      totalSupply == toBigNumber(params.totalSupply)
  IN  IF isZero(totalSupply)
      THEN minus(sqrt(multipliedBy(amount0, amount1)), MINIMUM_LIQUIDITY)
      ELSE LET one == dividedBy(multipliedBy(amount0, totalSupply), reserve0)
               two == dividedBy(multipliedBy(amount1, totalSupply), reserve0)
           IN  BigMin(one, two)

\* getAddPosition, the position minted for the accepted amounts, before rounding
MintedLp(params, amount0, amount1) ==
  LET reserve0 == toBigNumber(params.reserve0)
      reserve1 == toBigNumber(params.reserve1)
      totalSupply == toBigNumber(params.totalSupply)
  IN  IF isZero(totalSupply)
      THEN minus(sqrt(multipliedBy(amount0, amount1)), MINIMUM_LIQUIDITY)
      ELSE LET one == dividedBy(multipliedBy(amount0, totalSupply), reserve0)
               two == dividedBy(multipliedBy(amount1, totalSupply), reserve1)
           IN  BigMin(one, two)

getAddPosition(params) ==
  LET a == AddAmounts(params)
  IN  dp0(MintedLp(params, a.amount0, a.amount1))

\* getAddPercentage with the position divided by the supply alone
getAddPercentage_ofSupply(params) ==
  LET totalSupply == toBigNumber(params.totalSupply)
  IN  IF isZero(totalSupply) THEN Int2Dec(1)
      ELSE LET lp == getAddPosition(params)
           IN  dividedBy(lp, totalSupply)

getAddPercentage(params) ==
  LET totalSupply == toBigNumber(params.totalSupply)
  IN  IF isZero(totalSupply) THEN Int2Dec(1)
      ELSE LET lp == getAddPosition(params)
           IN  dividedBy(lp, plus(lp, totalSupply))

getTokenBalances(pair, lpBalance) ==
  LET balancePercentage == dividedBy(toBigNumber(lpBalance), toBigNumber(pair.totalSupply))
  IN  [token0 |-> dp0(multipliedBy(toBigNumber(pair.reserve0), balancePercentage)),
       token1 |-> dp0(multipliedBy(toBigNumber(pair.reserve1), balancePercentage))]

(***************************************************************************)
(* The caller: a snapshot of external inputs and the calls made on it      *)
(***************************************************************************)
VARIABLES
  env,       \* the snapshot the caller holds, fixed for the session
  call,      \* the latest call: the function, its parameters and what it returned
  prev,      \* the call before the latest one (quotes of one session are compared)
  redeemed   \* redeem session: LP supply not yet redeemed, and the tokens paid out

vars == <<env, call, prev, redeemed>>

Zero == Int2Dec(0)
NoCall == [op |-> "none"]

Decimals == 0..MaxDecimals
Reserves == {Int2Dec(r) : r \in 0..MaxReserve}
Supplies == {Int2Dec(t) : t \in 0..MaxSupply}
\* fee left out, fee 0, fee 0.5
Fees == {Undefined, Zero, Dec(5, 1)}
Prices == {NaN, Zero, Int2Dec(1), Int2Dec(2)}
\* amounts around a quotient that rounds to 1 at DecimalPlaces places
EdgeAmount == 2 * Pow10(DecimalPlaces)
ImpactAmounts == {NaN, Zero, Int2Dec(EdgeAmount - 1), Int2Dec(EdgeAmount)}

SwapEnvs ==
  [kind : {"swap"}, decimalsIn : Decimals, decimalsOut : Decimals,
   reserveIn : Reserves, reserveOut : Reserves \cup {Int2Dec(BigReserve)}, fee : Fees]
ImpactEnvs == [kind : {"impact"}, priceIn : Prices, priceOut : Prices]
DepositAmounts == {Int2Dec(a) : a \in 0..MaxDeposit}
DepositEnvs ==
  [kind : {"deposit"}, token0Amount : DepositAmounts, token1Amount : DepositAmounts,
   token0Decimals : Decimals, token1Decimals : Decimals,
   reserve0 : Reserves, reserve1 : Reserves, totalSupply : Supplies]
\* Pair.Model, the fields getTokenBalances reads
RedeemEnvs ==
  [kind : {"redeem"}, reserve0 : Reserves, reserve1 : Reserves, totalSupply : Supplies]

Init ==
  /\ env \in SwapEnvs \cup ImpactEnvs \cup DepositEnvs \cup RedeemEnvs
  /\ call = NoCall
  /\ prev = NoCall
  /\ redeemed = [left |-> IF env.kind = "redeem" THEN env.totalSupply.n ELSE 0,
                 token0 |-> Zero, token1 |-> Zero]

\* Swap.getAmountOut on the snapshot, for a raw input amount
GetAmountOut ==
  /\ env.kind = "swap"
  /\ \E a \in 0..MaxAmount :
       LET params == [amountIn |-> Int2Dec(a), decimalsIn |-> env.decimalsIn,
                      decimalsOut |-> env.decimalsOut, reserveIn |-> env.reserveIn,
                      reserveOut |-> env.reserveOut, fee |-> env.fee]
       IN  call' = [op |-> "getAmountOut", params |-> params, ret |-> getAmountOut(params)]
  /\ prev' = call
  /\ UNCHANGED <<env, redeemed>>

\* Swap.getPriceImpact on the quoted prices
GetPriceImpact ==
  /\ env.kind = "impact"
  /\ \E ai \in ImpactAmounts, ao \in ImpactAmounts :
       LET params == [amountIn |-> ai, amountOut |-> ao,
                      priceIn |-> env.priceIn, priceOut |-> env.priceOut]
       IN  call' = [op |-> "getPriceImpact", params |-> params, ret |-> getPriceImpact(params)]
  /\ prev' = call
  /\ UNCHANGED <<env, redeemed>>

\* GetAddPositionParams for the deposit of the snapshot
DepositParams ==
  [token0Amount |-> env.token0Amount, token1Amount |-> env.token1Amount,
   token0Decimals |-> env.token0Decimals, token1Decimals |-> env.token1Decimals,
   reserve0 |-> env.reserve0, reserve1 |-> env.reserve1, totalSupply |-> env.totalSupply]

\* Liquidity.getAddPosition on the pool snapshot
GetAddPosition ==
  /\ env.kind = "deposit"
  /\ call' = [op |-> "getAddPosition", params |-> DepositParams,
              accepted |-> AddAmounts(DepositParams), ret |-> getAddPosition(DepositParams)]
  /\ prev' = NoCall
  /\ UNCHANGED <<env, redeemed>>

\* Liquidity.getAddPercentage on the pool snapshot
GetAddPercentage ==
  /\ env.kind = "deposit"
  /\ call' = [op |-> "getAddPercentage", params |-> DepositParams,
              ret |-> getAddPercentage(DepositParams)]
  /\ prev' = NoCall
  /\ UNCHANGED <<env, redeemed>>

\* Liquidity.getPairDecimals
GetPairDecimals ==
  /\ env.kind = "deposit"
  /\ call' = [op |-> "getPairDecimals",
              params |-> [token0Decimals |-> env.token0Decimals,
                          token1Decimals |-> env.token1Decimals],
              ret |-> getPairDecimals(env.token0Decimals, env.token1Decimals)]
  /\ prev' = NoCall
  /\ UNCHANGED <<env, redeemed>>

\* Liquidity.getTokenBalances for an LP balance; a balance that fits in the
\* supply not yet redeemed is a further holder's, and what it pays is added up
GetTokenBalances ==
  /\ env.kind = "redeem"
  /\ \E b \in 0..MaxSupply :
       LET pair == [reserve0 |-> env.reserve0, reserve1 |-> env.reserve1,
                    totalSupply |-> env.totalSupply]
           ret == getTokenBalances(pair, Int2Dec(b))
       IN  /\ call' = [op |-> "getTokenBalances",
                       params |-> [pair |-> pair, lpBalance |-> Int2Dec(b)], ret |-> ret]
           /\ redeemed' = IF b <= redeemed.left
                          THEN [left |-> redeemed.left - b,
                                token0 |-> plus(redeemed.token0, ret.token0),
                                token1 |-> plus(redeemed.token1, ret.token1)]
                          ELSE redeemed
  /\ prev' = NoCall
  /\ UNCHANGED env

Next ==
  \/ GetAmountOut
  \/ GetPriceImpact
  \/ GetAddPosition
  \/ GetAddPercentage
  \/ GetPairDecimals
  \/ GetTokenBalances

Spec == Init /\ [][Next]_vars

(***************************************************************************)
(* Claims                                                                  *)
(***************************************************************************)
Positive(x) == x.k = "fin" /\ x.n > 0
NonNegative(x) == x.k = "fin" /\ x.n >= 0
ZeroOrNaN(x) == x = Zero \/ x = NaN
\* x <= y for finite decimals, compared exactly
Leq(x, y) == x.k = "fin" /\ y.k = "fin" /\ ~FinLess(y, x)
\* the integer x * 10^e of a finite decimal with at most e places
Scaled(x, e) == x.n * Pow10(e - x.e)

\* a quote of a positive amount against positive reserves
IsQuote(c) ==
  /\ c.op = "getAmountOut"
  /\ Positive(c.params.amountIn)
  /\ Positive(c.params.reserveIn)
  /\ Positive(c.params.reserveOut)

\* C1: for a positive amountIn, positive reserves and a fee in [0,1), the value
\* getAmountOut returns is strictly less than reserveOut.
C1_OutputBelowReserve ==
  IsQuote(call) => isLessThan(call.ret, call.params.reserveOut)

\* C2: for a pool with totalSupply > 0, the token0 amounts getTokenBalances
\* returns for the holders of a split of the supply, each rounded on its own,
\* never add up to more than reserve0.
C2_RedeemedWithinReserve ==
  (env.kind = "redeem" /\ Positive(env.totalSupply))
    => Leq(redeemed.token0, env.reserve0)

\* a quote of any amount against positive reserves
IsSwap(c) ==
  /\ c.op = "getAmountOut"
  /\ Positive(c.params.reserveIn)
  /\ Positive(c.params.reserveOut)

\* C3 as stated: with reserves, decimals and fee fixed, getAmountOut is strictly
\* increasing in the raw amountIn.
C3_StrictlyIncreasing ==
  (IsSwap(call) /\ IsSwap(prev)
     /\ FinLess(prev.params.amountIn, call.params.amountIn))
    => isLessThan(prev.ret, call.ret)

\* C3 amended: with reserves, decimals and fee fixed, getAmountOut is
\* non-decreasing in the raw amountIn (a larger input never quotes less).
C3_NonDecreasing ==
  (IsSwap(call) /\ IsSwap(prev)
     /\ FinLess(prev.params.amountIn, call.params.amountIn))
    => Leq(prev.ret, call.ret)

\* two quotes of one session, the second for more input, that return the same
C3_Witness ==
  /\ IsQuote(call) /\ IsQuote(prev)
  /\ FinLess(prev.params.amountIn, call.params.amountIn)
  /\ prev.ret = call.ret
  /\ Positive(call.ret)

\* getAddPosition on reserves of which one is zero, or on zero reserves and a
\* non-zero supply
DegenerateDeposit(c) ==
  /\ c.op = "getAddPosition"
  /\ \/ isZero(c.params.reserve0) # isZero(c.params.reserve1)
     \/ isZero(c.params.reserve0) /\ isZero(c.params.reserve1)
          /\ ~isZero(c.params.totalSupply)

\* C4: a division by zero is never passed on as a numeric-looking result:
\* getAddPosition on degenerate reserves and getTokenBalances on a zero
\* totalSupply return the sentinel zero (the model has no failing calls).
C4_DivisionByZeroGivesZero ==
  /\ DegenerateDeposit(call) => call.ret = Zero
  /\ (call.op = "getTokenBalances" /\ isZero(call.params.pair.totalSupply))
       => (call.ret.token0 = Zero /\ call.ret.token1 = Zero)

C6_SuppliedFeeIsUsed ==
  (call.op = "getAmountOut" /\ ~isZero(call.params.amountIn)
     /\ call.params.fee # Undefined)
    => LET p == call.params
           amountInWithFee ==
             multipliedBy(removeDecimals(p.amountIn, p.decimalsIn),
                          minus(Int2Dec(1), p.fee))
       IN  call.ret =
             applyDecimals(dividedBy(multipliedBy(p.reserveOut, amountInWithFee),
                                     plus(p.reserveIn, amountInWithFee)),
                           p.decimalsOut)

\* the deposit of Scenario B: reserves (100, 200), totalSupply 50, desired (10, 20)
ScenarioB ==
  [token0Amount |-> Int2Dec(10), token1Amount |-> Int2Dec(20),
   token0Decimals |-> 0, token1Decimals |-> 0,
   reserve0 |-> Int2Dec(100), reserve1 |-> Int2Dec(200), totalSupply |-> Int2Dec(50)]

\* a deposit into a pool with positive reserves and a positive supply
IsPoolDeposit(c) ==
  /\ c.op = "getAddPosition"
  /\ Positive(c.params.reserve0) /\ Positive(c.params.reserve1)
  /\ Positive(c.params.totalSupply)

\* C7: for positive reserves and totalSupply, getAddPosition returns
\* min(amount0 * totalSupply / reserve0, amount1 * totalSupply / reserve1)
\* rounded to 0 decimal places, for the accepted amounts; Scenario B gives 5.
C7_ProportionalMint ==
  /\ IsPoolDeposit(call) =>
       LET p == call.params
           a == call.accepted
       IN  /\ call.ret =
                dp0(BigMin(dividedBy(multipliedBy(a.amount0, p.totalSupply), p.reserve0),
                           dividedBy(multipliedBy(a.amount1, p.totalSupply), p.reserve1)))
           /\ call.ret.k = "fin" /\ call.ret.e = 0
  /\ getAddPosition(ScenarioB) = Int2Dec(5)

\* a deposit into a live pool that mints a positive position
C7_Witness ==
  /\ IsPoolDeposit(call)
  /\ Positive(call.ret)
  /\ call.accepted.amount0 # call.accepted.amount1

\* C8: getAddPercentage returns exactly 1 when totalSupply is zero, and
\* otherwise lp / (lp + totalSupply) for the lp getAddPosition returns for
\* the same parameters.
C8_AddPercentage ==
  call.op = "getAddPercentage" =>
    IF call.params.totalSupply = Zero
    THEN call.ret = Int2Dec(1)
    ELSE LET lp == getAddPosition(call.params)
         IN  call.ret = dividedBy(lp, plus(lp, call.params.totalSupply))

\* a percentage strictly between 0 and 1 for a deposit into a live pool
C8_Witness ==
  /\ call.op = "getAddPercentage"
  /\ Positive(call.params.totalSupply)
  /\ Positive(call.ret) /\ FinLess(call.ret, Int2Dec(1))

\* a price impact call on positive amounts and prices
IsImpact(c) ==
  /\ c.op = "getPriceImpact"
  /\ Positive(c.params.amountIn) /\ Positive(c.params.amountOut)
  /\ Positive(c.params.priceIn) /\ Positive(c.params.priceOut)

ValueOut(c) == multipliedBy(c.params.amountOut, c.params.priceOut)
ValueIn(c) == multipliedBy(c.params.amountIn, c.params.priceIn)

\* valueOut / valueIn of c is less than that of d, compared exactly
RatioLess(c, d) ==
  FinLess(multipliedBy(ValueOut(c), ValueIn(d)), multipliedBy(ValueOut(d), ValueIn(c)))

\* q is x / y rounded to DecimalPlaces places, ties up (x >= 0, y > 0), stated
\* on integers
IsRoundedQuotient(q, x, y) ==
  /\ q.k = "fin" /\ q.e <= DecimalPlaces
  /\ LET e == MaxOf(x.e, y.e)
         xs == Scaled(x, e)
         ys == Scaled(y, e)
         m == Scaled(q, DecimalPlaces)
         d == 2 * xs * Pow10(DecimalPlaces) - 2 * m * ys
     IN  -ys <= d /\ d < ys

\* C9 as stated: on positive inputs getPriceImpact returns
\* -(1 - valueOut/valueIn) * 100, so that the result is strictly negative exactly
\* when valueOut < valueIn, and a smaller valueOut/valueIn gives a smaller result.
C9_ImpactExact ==
  /\ IsImpact(call) =>
       (isLessThan(call.ret, Zero) <=> FinLess(ValueOut(call), ValueIn(call)))
  /\ (IsImpact(call) /\ IsImpact(prev) /\ RatioLess(prev, call))
       => isLessThan(prev.ret, call.ret)

\* C9 amended: on positive inputs getPriceImpact returns -(1 - q) * 100 for q
\* the quotient valueOut/valueIn rounded to the library's decimal places; the
\* result is negative only when valueOut < valueIn and never positive then, and
\* a smaller valueOut/valueIn never gives a larger result.
C9_ImpactRounded ==
  /\ IsImpact(call) =>
       /\ IsRoundedQuotient(plus(multipliedBy(call.ret, Dec(1, 2)), Int2Dec(1)),
                            ValueOut(call), ValueIn(call))
       /\ isLessThan(call.ret, Zero) => FinLess(ValueOut(call), ValueIn(call))
       /\ FinLess(ValueOut(call), ValueIn(call)) => Leq(call.ret, Zero)
  /\ (IsImpact(call) /\ IsImpact(prev) /\ RatioLess(prev, call))
       => Leq(prev.ret, call.ret)

\* a trade that returns less value than it put in and is quoted a negative impact
C9_Witness ==
  /\ IsImpact(call)
  /\ FinLess(ValueOut(call), ValueIn(call))
  /\ isLessThan(call.ret, Zero)

\* a deposit of non-negative amounts
IsDeposit(c) ==
  /\ c.op = "getAddPosition"
  /\ NonNegative(c.params.token0Amount) /\ NonNegative(c.params.token1Amount)

Desired0(c) == removeDecimals(c.params.token0Amount, c.params.token0Decimals)
Desired1(c) == removeDecimals(c.params.token1Amount, c.params.token1Decimals)

\* what the capping step guarantees whatever the rounding: no accepted amount
\* above the desired one, and one of them equal to it
CappedToDesired(c) ==
  /\ Leq(c.accepted.amount0, Desired0(c))
  /\ Leq(c.accepted.amount1, Desired1(c))
  /\ \/ c.accepted.amount0 = Desired0(c)
     \/ c.accepted.amount1 = Desired1(c)

FirstDepositAsDesired(c) ==
  (IsDeposit(c) /\ isZero(c.params.reserve0) /\ isZero(c.params.reserve1))
    => (c.accepted.amount0 = Desired0(c) /\ c.accepted.amount1 = Desired1(c))

\* C10 as stated: with positive reserves the accepted amounts are capped to the
\* desired ones, one of them equal to it, and amount0 * reserve1 =
\* amount1 * reserve0; with zero reserves they are the desired amounts.
C10_ExactRatio ==
  /\ (IsDeposit(call) /\ Positive(call.params.reserve0) /\ Positive(call.params.reserve1))
       => /\ CappedToDesired(call)
          /\ multipliedBy(call.accepted.amount0, call.params.reserve1)
               = multipliedBy(call.accepted.amount1, call.params.reserve0)
  /\ FirstDepositAsDesired(call)

\* C10 amended: as stated, but amount0 * reserve1 and amount1 * reserve0 agree
\* only up to the rounding of the quotient that caps one amount: they differ by
\* at most max(reserve0, reserve1) * 0.5 * 10^-DecimalPlaces.
C10_RatioUpToRounding ==
  /\ (IsDeposit(call) /\ Positive(call.params.reserve0) /\ Positive(call.params.reserve1))
       => /\ CappedToDesired(call)
          /\ LET r0 == call.params.reserve0
                 r1 == call.params.reserve1
                 diff == minus(multipliedBy(call.accepted.amount0, r1),
                               multipliedBy(call.accepted.amount1, r0))
                 e == MaxOf(diff.e, MaxOf(r0.e, r1.e))
             IN  /\ diff.k = "fin"
                 /\ 2 * Pow10(DecimalPlaces) * Abs(Scaled(diff, e))
                      <= MaxOf(Scaled(r0, e), Scaled(r1, e))
  /\ FirstDepositAsDesired(call)

\* a deposit whose token1 amount is capped to a rounded quotient
C10_Witness ==
  /\ IsDeposit(call)
  /\ Positive(call.params.reserve0) /\ Positive(call.params.reserve1)
  /\ FinLess(call.accepted.amount1, Desired1(call))
  /\ multipliedBy(call.accepted.amount0, call.params.reserve1)
       # multipliedBy(call.accepted.amount1, call.params.reserve0)

====
